---- MODULE Spec2Model ----
(***************************************************************************)
(* A model of the Zoic cache middleware for Oak (src/src/zoicCache.ts):    *)
(* the ZoicCache class (options parsing, `use`, `makeResponseCacheable`,   *)
(* `clearCache`), the DoublyLinkedList the caches are built on, and the    *)
(* LRU / LFU cache engines.  lru.ts and lfu.ts are imported by             *)
(* zoicCache.ts but are not part of the available sources: the two engines *)
(* are modelled from the design document (spec.md, sections 3 and 4), on   *)
(* top of the DoublyLinkedList of the source.                              *)
(***************************************************************************)
EXTENDS Integers, Sequences, FiniteSets, TLC

VARIABLES
  opts,          \* the options object handed to `new ZoicCache(options)`
  status,        \* "new" (constructor not run), "constructed", "threw"
  error,         \* which TypeError the constructor threw ("none" if none)
  expire,        \* ZoicCache.expire, a JS number
  policy,        \* which engine ZoicCache.cache is: "LRU", "LFU" ("none" before)
  respondOnHit,  \* ZoicCache.respondOnHit
  capacity,      \* the engine's maximum entry count
  heap,          \* the Node objects, by address
  list,          \* the DoublyLinkedList of the LRU engine: [head, tail]
  freq,          \* the LFU engine's buckets: access count -> [head, tail]
  minCount,      \* the LFU engine's tracked minimum populated count
  cache,         \* the engine's hashmap: key -> entry handle
  now,           \* the clock, in seconds
  pending,       \* key -> number of requests that missed in `use` and whose
                 \* response is not finalised yet (patched toDomResponse)
  ev,            \* the handler that has just run and what it did and returned
                 \* (expired: it found the entry of its key expired); op is
                 \* "idle" once it has returned to the event loop
  touched,       \* history: the keys put or hit, most recent first
  stored,        \* history: key -> the last value put and when
  added          \* history: the nodes added to a list on its own and still
                 \* in it, most recently added first

vars == <<opts, status, error, expire, policy, respondOnHit, capacity, heap,
          list, freq, minCount, cache, now, pending, ev, touched, stored, added>>

configVars == <<opts, status, error, expire, policy, respondOnHit, capacity>>
engineVars == <<heap, list, freq, minCount, cache>>

-----------------------------------------------------------------------------
(* Bounds of the model.                                                    *)

MaxParts == 3      \* components of a TTL string
MaxTime == 1       \* the clock runs from 0 to MaxTime
MaxInFlight == 2   \* requests between their miss in `use` and their response
MaxCount == 3      \* an entry's accessCount is not promoted beyond this
MaxList == 3       \* nodes in a DoublyLinkedList used on its own

(* Program constants.                                                      *)

DefaultExpire == 86400   \* `if (!numberString) return 86400`
MaxExpire == 86400       \* `if (seconds > 86400 || seconds < 0) throw`

-----------------------------------------------------------------------------
(* JavaScript values.  A JS number is an integer or NaN; every arithmetic  *)
(* operation on NaN yields NaN and every comparison with NaN is false.     *)

Num(n) == [nan |-> FALSE, n |-> n]
NaN == [nan |-> TRUE, n |-> 0]
JsAdd(a, b) == IF a.nan \/ b.nan THEN NaN ELSE Num(a.n + b.n)
JsMul(a, b) == IF a.nan \/ b.nan THEN NaN ELSE Num(a.n * b.n)
JsSub(a, b) == IF a.nan \/ b.nan THEN NaN ELSE Num(a.n - b.n)
JsGt(a, b) == ~a.nan /\ ~b.nan /\ a.n > b.n
JsLt(a, b) == ~a.nan /\ ~b.nan /\ a.n < b.n
JsGe(a, b) == ~a.nan /\ ~b.nan /\ a.n >= b.n

(* Strings are sequences of one-character strings.                         *)
Digits == <<"0", "1", "2", "3", "4", "5", "6", "7", "8", "9">>
IsDigit(c) == \E i \in DOMAIN Digits : Digits[i] = c
DigitVal(c) == (CHOOSE i \in DOMAIN Digits : Digits[i] = c) - 1
IsSpace(c) == c = " "

(* String.prototype.trim *)
RECURSIVE TrimLeft(_)
TrimLeft(s) == IF s # <<>> /\ IsSpace(Head(s)) THEN TrimLeft(Tail(s)) ELSE s
RECURSIVE TrimRight(_)
TrimRight(s) ==
  IF s # <<>> /\ IsSpace(s[Len(s)]) THEN TrimRight(SubSeq(s, 1, Len(s) - 1)) ELSE s
trim(s) == TrimRight(TrimLeft(s))

(* String.prototype.split(','): the pieces between the commas, empty ones  *)
(* included; a string with no comma is one piece.                          *)
RECURSIVE SplitFrom(_, _, _)
SplitFrom(s, i, cur) ==
  IF i > Len(s) THEN <<cur>>
  ELSE IF s[i] = "," THEN <<cur>> \o SplitFrom(s, i + 1, <<>>)
  ELSE SplitFrom(s, i + 1, Append(cur, s[i]))
split(s) == SplitFrom(s, 1, <<>>)

(* parseInt(string) with no radix, on decimal input: leading white space   *)
(* is skipped, an optional sign is read, then the longest run of digits;   *)
(* whatever follows is ignored; NaN when there is no digit.                *)
RECURSIVE DigitsValue(_, _)
DigitsValue(s, acc) ==
  IF s # <<>> /\ IsDigit(Head(s))
  THEN DigitsValue(Tail(s), acc * 10 + DigitVal(Head(s)))
  ELSE acc
parseInt(str) ==
  LET s == TrimLeft(str)
      neg == s # <<>> /\ Head(s) = "-"
      body == IF s # <<>> /\ Head(s) \in {"-", "+"} THEN Tail(s) ELSE s
  IN IF body = <<>> \/ ~IsDigit(Head(body)) THEN NaN
     ELSE Num((IF neg THEN -1 ELSE 1) * DigitsValue(body, 0))

(* el.slice(0, -1) *)
sliceLast(el) == IF el = <<>> THEN <<>> ELSE SubSeq(el, 1, Len(el) - 1)

-----------------------------------------------------------------------------
(* Options.  `expire` is undefined, a number or a string.                  *)

ExpUndef == [t |-> "undefined", n |-> 0, s |-> <<>>]
ExpNum(n) == [t |-> "number", n |-> n, s |-> <<>>]
ExpStr(s) == [t |-> "string", n |-> 0, s |-> s]

(* the reduce callback with the factor of 'h' applied to 'm' as well *)
reduceStepMinutesAsHours(arr, el) ==
  LET last == IF el = <<>> THEN "undefined" ELSE el[Len(el)]
      n == parseInt(sliceLast(el))
  IN IF arr.threw THEN arr
     ELSE IF last \in {"h", "m"}
     THEN [threw |-> FALSE, sum |-> JsAdd(arr.sum, JsMul(n, Num(3600)))]
     ELSE IF last = "s" THEN [threw |-> FALSE, sum |-> JsAdd(arr.sum, n)]
     ELSE [threw |-> TRUE, sum |-> arr.sum]

(* The callback of the reduce in #parseExpTime: the accumulator `arr` is   *)
(* [threw, sum]; a throw ends the reduce.                                  *)
reduceStep(arr, el) ==
  LET last == IF el = <<>> THEN "undefined" ELSE el[Len(el)]
      n == parseInt(sliceLast(el))
  IN IF arr.threw THEN arr
     ELSE IF last = "h" THEN [threw |-> FALSE, sum |-> JsAdd(arr.sum, JsMul(n, Num(3600)))]
     ELSE IF last = "m" THEN [threw |-> FALSE, sum |-> JsAdd(arr.sum, JsMul(n, Num(60)))]
     ELSE IF last = "s" THEN [threw |-> FALSE, sum |-> JsAdd(arr.sum, n)]
     ELSE [threw |-> TRUE, sum |-> arr.sum]

RECURSIVE reduce(_, _, _)
reduce(els, i, arr) ==
  IF i > Len(els) THEN arr ELSE reduce(els, i + 1, reduceStep(arr, els[i]))

(* `!numberString`: undefined, 0 and the empty string are falsy.           *)
falsyExpire(e) ==
  \/ e.t = "undefined"
  \/ e.t = "number" /\ e.n = 0
  \/ e.t = "string" /\ e.s = <<>>

rangeCheck(seconds) ==
  IF JsGt(seconds, Num(MaxExpire)) \/ JsLt(seconds, Num(0))
  THEN [error |-> "range", seconds |-> NaN]
  ELSE [error |-> "none", seconds |-> seconds]

(* ZoicCache.#parseExpTime: [error, seconds]; error is "none", "format"    *)
(* (the TypeError of the reduce) or "range" (the out-of-range TypeError).  *)
parseExpTime(e) ==
  IF falsyExpire(e) THEN [error |-> "none", seconds |-> Num(DefaultExpire)]
  ELSE IF e.t = "string"
  THEN LET r == reduce(split(trim(e.s)), 1, [threw |-> FALSE, sum |-> Num(0)])
       IN IF r.threw THEN [error |-> "format", seconds |-> NaN]
          ELSE rangeCheck(r.sum)
  ELSE rangeCheck(Num(e.n))

(* ZoicCache.#initCacheType *)
initCacheType(c) == IF c = "LFU" THEN "LFU" ELSE "LRU"

(* `options?.respondOnHit || true` *)
initRespondOnHit(r) == IF r = "true" THEN TRUE ELSE TRUE


-----------------------------------------------------------------------------
(* Node and DoublyLinkedList (zoicCache.ts, lines 236-284).  The heap maps *)
(* the address of every Node object that exists to its fields; a list is   *)
(* its two fields [head, tail].  List operations return the new heap, the  *)
(* new list and the value the method returns.                              *)

Null == 0

AllKeys == <<"a", "b", "c", "d">>
NodeIds == 1..(Len(AllKeys) + 1)

EmptyList == [head |-> Null, tail |-> Null]

(* Node without `this.value = value` *)
NodeWithoutValue(value, next, key) ==
  [next |-> next, prev |-> Null,
   value |-> [body |-> "undefined", headers |-> "undefined", status |-> 0,
              type |-> "undefined"],
   key |-> key]

(* `new Node(value, next, key)` *)
Node(value, next, key) == [next |-> next, prev |-> Null, value |-> value, key |-> key]

(* The address of a new object: any address that holds no object.  The     *)
(* choice is not observable; the model takes the address with the key's    *)
(* index when it is free, and the lowest free one otherwise.               *)
KeyIndex(key) ==
  IF \E i \in DOMAIN AllKeys : AllKeys[i] = key
  THEN CHOOSE i \in DOMAIN AllKeys : AllKeys[i] = key
  ELSE Null
Alloc(h, key) ==
  LET free == NodeIds \ DOMAIN h
  IN IF KeyIndex(key) \in free THEN KeyIndex(key)
     ELSE CHOOSE i \in free : \A j \in free : i <= j

Store(h, a, node) == [x \in DOMAIN h \cup {a} |-> IF x = a THEN node ELSE h[x]]

(* addHead linking the new node behind the tail instead *)
addHeadAtTail(h, l, value, key) ==
  LET a == Alloc(h, key)
      h1 == Store(h, a, [Node(value, Null, key) EXCEPT !.prev = l.tail])
  IN IF l.tail = Null
     THEN [heap |-> h1, list |-> [head |-> a, tail |-> a], ret |-> a]
     ELSE [heap |-> [h1 EXCEPT ![l.tail].next = a],
           list |-> [head |-> l.head, tail |-> a],
           ret |-> a]

(* addHead without `else this.head.next.prev = this.head` *)
addHeadNoBackLink(h, l, value, key) ==
  LET a == Alloc(h, key)
      h1 == Store(h, a, Node(value, l.head, key))
  IN [heap |-> h1,
      list |-> [head |-> a, tail |-> IF l.tail = Null THEN a ELSE l.tail],
      ret |-> a]

(* DoublyLinkedList.addHead *)
addHead(h, l, value, key) ==
  LET a == Alloc(h, key)
      h1 == Store(h, a, Node(value, l.head, key))
  IN IF l.tail = Null
     THEN [heap |-> h1, list |-> [head |-> a, tail |-> a], ret |-> a]
     ELSE [heap |-> [h1 EXCEPT ![h1[a].next].prev = a],
           list |-> [head |-> a, tail |-> l.tail],
           ret |-> a]

(* deleteHead with `this.head = null` for `this.head = this.tail = null` *)
deleteHeadKeepsTail(h, l) ==
  IF l.head = l.tail
  THEN [heap |-> h, list |-> [head |-> Null, tail |-> l.tail], ret |-> l.head]
  ELSE LET nh == h[l.head].next
       IN [heap |-> [h EXCEPT ![nh].prev = Null],
           list |-> [head |-> nh, tail |-> l.tail],
           ret |-> l.head]

(* DoublyLinkedList.deleteHead *)
deleteHead(h, l) ==
  IF l.head = l.tail
  THEN [heap |-> h, list |-> EmptyList, ret |-> l.head]
  ELSE LET nh == h[l.head].next
       IN [heap |-> [h EXCEPT ![nh].prev = Null],
           list |-> [head |-> nh, tail |-> l.tail],
           ret |-> l.head]

(* deleteTail taking the head *)
deleteTailAsDeleteHead(h, l) == deleteHead(h, l)

(* deleteTail with `return this.tail` for `return deleted` *)
deleteTailReturnsNewTail(h, l) ==
  IF l.head = l.tail
  THEN [heap |-> h, list |-> EmptyList, ret |-> Null]
  ELSE LET nt == h[l.tail].prev
       IN [heap |-> [h EXCEPT ![nt].next = Null],
           list |-> [head |-> l.head, tail |-> nt],
           ret |-> nt]

(* DoublyLinkedList.deleteTail *)
deleteTail(h, l) ==
  IF l.head = l.tail
  THEN [heap |-> h, list |-> EmptyList, ret |-> l.tail]
  ELSE LET nt == h[l.tail].prev
       IN [heap |-> [h EXCEPT ![nt].next = Null],
           list |-> [head |-> l.head, tail |-> nt],
           ret |-> l.tail]

(* The keys of a list from head to tail, following `next`.                 *)
RECURSIVE Forward(_, _, _)
Forward(h, a, fuel) ==
  IF a = Null \/ a \notin DOMAIN h \/ fuel = 0 THEN <<>>
  ELSE <<a>> \o Forward(h, h[a].next, fuel - 1)
ListNodes(h, l) == Forward(h, l.head, Cardinality(NodeIds))
ListKeys(h, l) == [i \in DOMAIN ListNodes(h, l) |-> h[ListNodes(h, l)[i]].key]

(* A Node object nothing refers to any more is gone.                       *)
Free(h, a) == [x \in DOMAIN h \ {a} |-> h[x]]

(* Ordered List, the two operations the engines need beyond the three of   *)
(* DoublyLinkedList (design document, 4.1): remove(handle) unlinks a node, *)
(* patching both neighbours and the list's ends; the node is dropped.      *)
remove(h, l, a) ==
  LET p == h[a].prev
      n == h[a].next
      h1 == IF p # Null THEN [h EXCEPT ![p].next = n] ELSE h
      h2 == IF n # Null THEN [h1 EXCEPT ![n].prev = p] ELSE h1
  IN [heap |-> Free(h2, a),
      list |-> [head |-> IF l.head = a THEN n ELSE l.head,
                tail |-> IF l.tail = a THEN p ELSE l.tail],
      ret |-> a]

(* moveToHead(handle): the entry leaves its position and is added at the   *)
(* head.                                                                   *)
moveToHead(h, l, a) ==
  LET r == remove(h, l, a)
  IN addHead(r.heap, r.list, h[a].value, h[a].key)


-----------------------------------------------------------------------------
(* The cache engines (lru.ts, lfu.ts), from the design document.  An       *)
(* engine's state is E = [heap, list, freq, minCount, cache]; the hashmap  *)
(* maps a key to [node, insertedAt, count]: the handle of its list node,   *)
(* the time of its last put, and its accessCount (LFU; 0 in the LRU).      *)
(* get returns [e, hit, value], put returns [e, ret].                      *)

(* The capacity is a constant of the engine; the model runs engines of    *)
(* capacity 2 and 3, the capacities of the scenarios of the design         *)
(* document (section 8).                                                   *)
Capacities == {2, 3}
KeysOf(cap) == {AllKeys[i] : i \in {j \in DOMAIN AllKeys : j <= cap + 1}}

Undefined ==
  [body |-> "undefined", headers |-> "undefined", status |-> 0, type |-> "undefined"]

Counts == 1..MaxCount
NewEngine ==
  [heap |-> <<>>, list |-> EmptyList, freq |-> [c \in Counts |-> EmptyList],
   minCount |-> 0, cache |-> <<>>]

MapPut(m, k, v) == [x \in DOMAIN m \cup {k} |-> IF x = k THEN v ELSE m[x]]
MapDel(m, k) == [x \in DOMAIN m \ {k} |-> m[x]]
Size(E) == Cardinality(DOMAIN E.cache)

(* the expiration rule with > for >= *)
isExpiredStrictly(insertedAt, ttl, t) == JsGt(JsSub(Num(t), Num(insertedAt)), ttl)

(* Expiration rule (4.4): (now - insertedAt) >= ttlSeconds.                *)
isExpired(insertedAt, ttl, t) == JsGe(JsSub(Num(t), Num(insertedAt)), ttl)
Expired(E, key, ttl, t) ==
  key \in DOMAIN E.cache /\ isExpired(E.cache[key].insertedAt, ttl, t)

(* ---- LRU (4.2) ---- *)

(* the entry of `key` leaves the list and the hashmap *)
lruDrop(E, key) ==
  LET r == remove(E.heap, E.list, E.cache[key].node)
  IN [E EXCEPT !.heap = r.heap, !.list = r.list, !.cache = MapDel(E.cache, key)]

lruEvict(E) ==
  LET d == deleteTail(E.heap, E.list)
  IN IF d.ret = Null THEN E
     ELSE [E EXCEPT !.heap = Free(d.heap, d.ret), !.list = d.list,
                    !.cache = MapDel(E.cache, E.heap[d.ret].key)]

lruInsert(E, key, value, t) ==
  LET a == addHead(E.heap, E.list, value, key)
  IN [E EXCEPT !.heap = a.heap, !.list = a.list,
               !.cache = MapPut(E.cache, key,
                                [node |-> a.ret, insertedAt |-> t, count |-> 0])]

lruGet(E, key, ttl, t) ==
  IF key \notin DOMAIN E.cache THEN [e |-> E, hit |-> FALSE, value |-> Undefined]
  ELSE IF Expired(E, key, ttl, t)
  THEN [e |-> lruDrop(E, key), hit |-> FALSE, value |-> Undefined]
  ELSE LET a == E.cache[key].node
           m == moveToHead(E.heap, E.list, a)
       IN [e |-> [E EXCEPT !.heap = m.heap, !.list = m.list,
                           !.cache[key].node = m.ret],
           hit |-> TRUE,
           value |-> E.heap[a].value]

lruPut(E, key, value, ttl, t, cap) ==
  LET E1 == IF Expired(E, key, ttl, t) THEN lruDrop(E, key) ELSE E
  IN IF key \in DOMAIN E1.cache
     THEN LET a == E1.cache[key].node
              h1 == [E1.heap EXCEPT ![a].value = value]
              m == moveToHead(h1, E1.list, a)
          IN [e |-> [E1 EXCEPT !.heap = m.heap, !.list = m.list,
                               !.cache[key] = [node |-> m.ret, insertedAt |-> t,
                                               count |-> 0]],
              ret |-> 0]
     ELSE LET E2 == IF Size(E1) >= cap THEN lruEvict(E1) ELSE E1
          IN [e |-> lruInsert(E2, key, value, t), ret |-> 0]

(* ---- LFU (4.3) ---- *)

Populated(E) == {c \in Counts : E.freq[c].head # Null}
LowestPopulated(E) ==
  IF Populated(E) = {} THEN 0
  ELSE CHOOSE c \in Populated(E) : \A d \in Populated(E) : c <= d

(* the entry of `key` leaves its bucket and the hashmap; the minimum is    *)
(* recomputed when its bucket became empty                                 *)
lfuDrop(E, key) ==
  LET c == E.cache[key].count
      r == remove(E.heap, E.freq[c], E.cache[key].node)
      E1 == [E EXCEPT !.heap = r.heap, !.freq[c] = r.list,
                      !.cache = MapDel(E.cache, key)]
  IN IF r.list.head = Null /\ E.minCount = c
     THEN [E1 EXCEPT !.minCount = LowestPopulated(E1)]
     ELSE E1

(* promotion: out of the bucket of its count, to the head of the next one  *)
lfuPromote(E, key, value, t) ==
  LET c == E.cache[key].count
      r == remove(E.heap, E.freq[c], E.cache[key].node)
      a == addHead(r.heap, E.freq[c + 1], value, key)
  IN [E EXCEPT !.heap = a.heap, !.freq[c] = r.list, !.freq[c + 1] = a.list,
               !.minCount = IF r.list.head = Null /\ E.minCount = c
                            THEN c + 1 ELSE E.minCount,
               !.cache[key] = [node |-> a.ret, insertedAt |-> t, count |-> c + 1]]

lfuEvict(E) ==
  IF E.minCount \notin Counts THEN E
  ELSE LET d == deleteTail(E.heap, E.freq[E.minCount])
       IN IF d.ret = Null THEN E
          ELSE [E EXCEPT !.heap = Free(d.heap, d.ret), !.freq[E.minCount] = d.list,
                         !.cache = MapDel(E.cache, E.heap[d.ret].key)]

lfuInsert(E, key, value, t) ==
  LET a == addHead(E.heap, E.freq[1], value, key)
  IN [E EXCEPT !.heap = a.heap, !.freq[1] = a.list, !.minCount = 1,
               !.cache = MapPut(E.cache, key,
                                [node |-> a.ret, insertedAt |-> t, count |-> 1])]

lfuGet(E, key, ttl, t) ==
  IF key \notin DOMAIN E.cache THEN [e |-> E, hit |-> FALSE, value |-> Undefined]
  ELSE IF Expired(E, key, ttl, t)
  THEN [e |-> lfuDrop(E, key), hit |-> FALSE, value |-> Undefined]
  ELSE LET v == E.heap[E.cache[key].node].value
       IN [e |-> lfuPromote(E, key, v, E.cache[key].insertedAt),
           hit |-> TRUE, value |-> v]

lfuPut(E, key, value, ttl, t, cap) ==
  LET E1 == IF Expired(E, key, ttl, t) THEN lfuDrop(E, key) ELSE E
  IN IF key \in DOMAIN E1.cache
     THEN [e |-> lfuPromote(E1, key, value, t), ret |-> 0]
     ELSE LET E2 == IF Size(E1) >= cap THEN lfuEvict(E1) ELSE E1
          IN [e |-> lfuInsert(E2, key, value, t), ret |-> 0]

(* ---- the facade (4.5): the engine chosen at construction ---- *)

cacheGet(pol, E, key, ttl, t) ==
  LET r == IF pol = "LFU" THEN lfuGet(E, key, ttl, t) ELSE lruGet(E, key, ttl, t)
  IN [e |-> r.e, hit |-> r.hit, value |-> r.value]

cachePut(pol, E, key, value, ttl, t, cap) ==
  LET r == IF pol = "LFU" THEN lfuPut(E, key, value, ttl, t, cap)
           ELSE lruPut(E, key, value, ttl, t, cap)
  IN [e |-> r.e, ret |-> r.ret]

cacheClear(E) == NewEngine

(* put -> success-code | failure-code (section 6; 0 and -1, section 9): a  *)
(* put that cannot complete, because the payload is rejected, reports the  *)
(* failure code or throws, and leaves the entries as they are (section 7). *)
(* Refused and Throwing stand for the payloads rejected in these two ways. *)
Refused ==
  [body |-> "refused", headers |-> "undefined", status |-> 0, type |-> "undefined"]
Throwing ==
  [body |-> "throwing", headers |-> "undefined", status |-> 0, type |-> "undefined"]

cachePutOutcome(pol, E, key, value, ttl, t, cap) ==
  IF value = Throwing THEN [e |-> E, ret |-> 0, threw |-> TRUE]
  ELSE IF value = Refused THEN [e |-> E, ret |-> -1, threw |-> FALSE]
  ELSE LET p == cachePut(pol, E, key, value, ttl, t, cap)
       IN [e |-> p.e, ret |-> p.ret, threw |-> FALSE]

(* An accessCount is not promoted beyond MaxCount: a hit or an overwrite   *)
(* of an entry that has reached it is outside the model.                   *)
WithinCount(pol, E, key, ttl, t) ==
  pol = "LFU" /\ key \in DOMAIN E.cache /\ ~Expired(E, key, ttl, t)
    => E.cache[key].count < MaxCount


-----------------------------------------------------------------------------
(* The middleware (ZoicCache.use, makeResponseCacheable, clearCache).      *)

(* The responses the downstream middleware computes: body, headers, status *)
(* and type of ctx.response when the response is finalised.                *)
Responses ==
  {[body |-> "v1", headers |-> "etag1", status |-> 200, type |-> "json"],
   [body |-> "v2", headers |-> "etag2", status |-> 404, type |-> "text"]}

(* `cacheResults === null` for `!cacheResults`: undefined is not null *)
truthyUnlessNull(v) == TRUE

(* JS truthiness of what cache.get returned: objects are truthy, undefined *)
(* is not.                                                                 *)
truthy(v) == v # Undefined

(* use without the early return of the respondOnHit branch *)
useCallsNextOnHit(cacheResults, roh) ==
  IF ~truthy(cacheResults)
  THEN [patched |-> TRUE, next |-> TRUE, response |-> Undefined, zoicResponse |-> Undefined]
  ELSE [patched |-> FALSE, next |-> TRUE, response |-> Undefined,
        zoicResponse |-> cacheResults]

(* ZoicCache.use, after `const cacheResults = this.cache.get(key)`:        *)
(* patched: makeResponseCacheable(ctx) was called; next: next() was        *)
(* called; response: what the handler wrote to ctx.response;               *)
(* zoicResponse: what it attached to ctx.state.                            *)
use(cacheResults, roh) ==
  IF ~truthy(cacheResults)
  THEN [patched |-> TRUE, next |-> TRUE, response |-> Undefined, zoicResponse |-> Undefined]
  ELSE IF roh
  THEN [patched |-> FALSE, next |-> FALSE,
        response |-> [headers |-> cacheResults.headers, body |-> cacheResults.body,
                      status |-> cacheResults.status, type |-> cacheResults.type],
        zoicResponse |-> Undefined]
  ELSE [patched |-> FALSE, next |-> TRUE, response |-> Undefined,
        zoicResponse |-> cacheResults]

(* The patched ctx.response.toDomResponse of makeResponseCacheable: the    *)
(* value handed to cache.put and the response returned to the client.      *)
toDomResponse(ctxResponse) ==
  [put |-> [body |-> ctxResponse.body, headers |-> ctxResponse.headers,
            status |-> ctxResponse.status, type |-> ctxResponse.type],
   sent |-> [headers |-> ctxResponse.headers, body |-> ctxResponse.body,
             status |-> ctxResponse.status, type |-> ctxResponse.type]]

(* makeResponseCacheable(ctx): one more request of this key whose response *)
(* will be stored when it is finalised.                                    *)
makeResponseCacheable(p, key) == [p EXCEPT ![key] = @ + 1]

(* What the `put` middleware sets ctx.response.body to on a failure.       *)
FailureBody ==
  [body |-> "success: false", headers |-> "undefined", status |-> 0,
   type |-> "undefined"]

(* put without the `else if (putResponse === -1)` branch *)
putSilentOnFailureCode(putResponse, threw) ==
  IF threw THEN [next |-> FALSE, response |-> FailureBody]
  ELSE IF putResponse = 0 THEN [next |-> TRUE, response |-> Undefined]
  ELSE [next |-> FALSE, response |-> Undefined]

(* ZoicCache.put, after `await this.cache.put(key, value)` returned        *)
(* putResponse or threw: next: next() was called; response: what the       *)
(* handler wrote to ctx.response.                                          *)
put(putResponse, threw) ==
  IF threw THEN [next |-> FALSE, response |-> FailureBody]
  ELSE IF putResponse = 0 THEN [next |-> TRUE, response |-> Undefined]
  ELSE IF putResponse = -1 THEN [next |-> FALSE, response |-> FailureBody]
  ELSE [next |-> FALSE, response |-> Undefined]

-----------------------------------------------------------------------------
(* The constructor.                                                        *)

Options(c, e, r) == [cache |-> c, expire |-> e, respondOnHit |-> r]

(* constructor (options): the fields of the new object, or the error       *)
constructor(o) ==
  LET pe == parseExpTime(o.expire)
  IN IF pe.error # "none"
     THEN [status |-> "threw", error |-> pe.error, expire |-> NaN,
           policy |-> "none", respondOnHit |-> FALSE]
     ELSE [status |-> "constructed", error |-> "none", expire |-> pe.seconds,
           policy |-> initCacheType(o.cache),
           respondOnHit |-> initRespondOnHit(o.respondOnHit)]

-----------------------------------------------------------------------------
(* State.                                                                  *)

Engine == [heap |-> heap, list |-> list, freq |-> freq, minCount |-> minCount,
           cache |-> cache]

SetEngine(E) ==
  /\ heap' = E.heap
  /\ list' = E.list
  /\ freq' = E.freq
  /\ minCount' = E.minCount
  /\ cache' = E.cache

NoEvent ==
  [op |-> "idle", key |-> "-", value |-> Undefined, next |-> FALSE,
   response |-> Undefined, zoicResponse |-> Undefined, removed |-> {},
   ret |-> 0, threw |-> FALSE, expired |-> FALSE]

InFlight == LET S == {k \in DOMAIN pending : pending[k] > 0}
                f[T \in SUBSET S] ==
                  IF T = {} THEN 0
                  ELSE LET k == CHOOSE x \in T : TRUE IN pending[k] + f[T \ {k}]
            IN f[S]

(* history: most recent touch first, live keys only *)
RECURSIVE Without(_, _)
Without(seq, S) ==
  IF seq = <<>> THEN <<>>
  ELSE IF Head(seq) \in S THEN Without(Tail(seq), S)
  ELSE <<Head(seq)>> \o Without(Tail(seq), S)
Touch(seq, k) == <<k>> \o Without(seq, {k})
KeepLive(seq, live) == Without(seq, {seq[i] : i \in DOMAIN seq} \ live)

(* history: the puts that are still in force at time t *)
InForce(s, ttl, t) ==
  [k \in {x \in DOMAIN s : ~isExpired(s[x].t, ttl, t)} |-> s[k]]

InitRest ==
  /\ heap = NewEngine.heap
  /\ list = NewEngine.list
  /\ freq = NewEngine.freq
  /\ minCount = NewEngine.minCount
  /\ cache = NewEngine.cache
  /\ now = 0
  /\ pending = [k \in {AllKeys[i] : i \in DOMAIN AllKeys} |-> 0]
  /\ ev = NoEvent
  /\ touched = <<>>
  /\ stored = <<>>
  /\ added = <<>>

(* The caches the request handlers run against: `new ZoicCache()` of the   *)
(* test server's router (LRU, one day) and an LFU of one day, both of      *)
(* capacity 2; an LRU of capacity 3 and an LFU of capacity 2 with a TTL of *)
(* one second.                                                             *)
SpecConfigs ==
  {[options |-> Options("undefined", ExpUndef, "undefined"), capacity |-> 2],
   [options |-> Options("LFU", ExpUndef, "undefined"), capacity |-> 2],
   [options |-> Options("LRU", ExpStr(<<"1", "s">>), "true"), capacity |-> 3],
   [options |-> Options("LFU", ExpNum(1), "false"), capacity |-> 2]}

Init ==
  /\ \E c \in SpecConfigs : opts = c.options /\ capacity = c.capacity
  /\ capacity \in Capacities
  /\ LET c == constructor(opts)
     IN /\ status = c.status
        /\ error = c.error
        /\ expire = c.expire
        /\ policy = c.policy
        /\ respondOnHit = c.respondOnHit
  /\ InitRest

(* A request for `key` reaches ZoicCache.use.                              *)
Use(key) ==
  /\ status = "constructed"
  /\ ev.op = "idle"
  /\ key \in KeysOf(capacity)
  /\ WithinCount(policy, Engine, key, expire, now)
  /\ LET g == cacheGet(policy, Engine, key, expire, now)
         cacheResults == IF g.hit THEN g.value ELSE Undefined
         o == use(cacheResults, respondOnHit)
     IN /\ o.patched => InFlight < MaxInFlight
        /\ SetEngine(g.e)
        /\ pending' = IF o.patched THEN makeResponseCacheable(pending, key) ELSE pending
        /\ ev' = [op |-> "use", key |-> key, value |-> cacheResults, next |-> o.next,
                  response |-> o.response, zoicResponse |-> o.zoicResponse,
                  removed |-> DOMAIN cache \ DOMAIN g.e.cache, ret |-> 0,
                  threw |-> FALSE, expired |-> Expired(Engine, key, expire, now)]
        /\ touched' = KeepLive(IF g.hit THEN Touch(touched, key) ELSE touched,
                               DOMAIN g.e.cache)
  /\ UNCHANGED <<configVars, now, stored, added>>

(* The response of a request that missed is finalised: the patched         *)
(* toDomResponse puts it into the cache and returns it to the client.      *)
ToDomResponse(key, ctxResponse) ==
  /\ status = "constructed"
  /\ ev.op = "idle"
  /\ pending[key] > 0
  /\ WithinCount(policy, Engine, key, expire, now)
  /\ LET d == toDomResponse(ctxResponse)
         p == cachePut(policy, Engine, key, d.put, expire, now, capacity)
         gone == DOMAIN cache \ DOMAIN p.e.cache
         overflow == key \notin DOMAIN cache /\ Cardinality(DOMAIN cache) >= capacity
         s1 == MapPut(stored, key, [v |-> d.put, t |-> now])
         s2 == IF overflow THEN [k \in DOMAIN s1 \ gone |-> s1[k]] ELSE s1
     IN /\ SetEngine(p.e)
        /\ pending' = [pending EXCEPT ![key] = @ - 1]
        /\ ev' = [op |-> "toDomResponse", key |-> key, value |-> d.put, next |-> FALSE,
                  response |-> d.sent, zoicResponse |-> Undefined, removed |-> gone,
                  ret |-> 0, threw |-> FALSE,
                  expired |-> Expired(Engine, key, expire, now)]
        /\ touched' = KeepLive(Touch(touched, key), DOMAIN p.e.cache)
        /\ stored' = InForce(s2, expire, now)
  /\ UNCHANGED <<configVars, now, added>>

(* clearCache without the call of cache.clear() *)
clearCacheKeepsEntries(E) == E

(* ZoicCache.clearCache *)
clearCache(E) == cacheClear(E)

ClearCache ==
  /\ status = "constructed"
  /\ ev.op = "idle"
  /\ SetEngine(clearCache(Engine))
  /\ ev' = [NoEvent EXCEPT !.op = "clearCache", !.removed = DOMAIN cache]
  /\ touched' = <<>>
  /\ stored' = <<>>
  /\ UNCHANGED <<configVars, now, pending, added>>

(* A second passes.                                                        *)
Tick ==
  /\ status = "constructed"
  /\ ev.op = "idle"
  /\ now < MaxTime
  /\ now' = now + 1
  /\ stored' = InForce(stored, expire, now + 1)
  /\ UNCHANGED <<configVars, engineVars, pending, touched, ev, added>>

(* The handler returns to the event loop: handlers run one at a time, to   *)
(* completion.                                                             *)
Return ==
  /\ ev.op # "idle"
  /\ ev' = NoEvent
  /\ UNCHANGED <<configVars, engineVars, now, pending, touched, stored, added>>

Next ==
  \/ \E key \in {AllKeys[i] : i \in DOMAIN AllKeys} : Use(key)
  \/ \E key \in {AllKeys[i] : i \in DOMAIN AllKeys}, r \in Responses : ToDomResponse(key, r)
  \/ ClearCache
  \/ Tick
  \/ Return

Spec == Init /\ [][Next]_vars

-----------------------------------------------------------------------------
(* The server with the `put` middleware on its routes as well.             *)

(* ctx.state.zoic when `put` runs: unset, a response, or a payload the     *)
(* engine rejects.                                                         *)
ZoicValues == {Undefined, Refused, Throwing} \cup Responses

(* ZoicCache.put from the return of `await this.cache.put(key, value)`, *)
(* whose outcome is p = [e, ret, threw].                                   *)
PutReturned(key, value, p) ==
  LET o == put(p.ret, p.threw)
      done == ~p.threw /\ p.ret = 0
      gone == DOMAIN cache \ DOMAIN p.e.cache
      overflow == key \notin DOMAIN cache /\ Cardinality(DOMAIN cache) >= capacity
      s1 == MapPut(stored, key, [v |-> value, t |-> now])
      s2 == IF overflow THEN [k \in DOMAIN s1 \ gone |-> s1[k]] ELSE s1
  IN /\ SetEngine(p.e)
     /\ ev' = [op |-> "put", key |-> key, value |-> value, next |-> o.next,
               response |-> o.response, zoicResponse |-> Undefined,
               removed |-> gone, ret |-> p.ret, threw |-> p.threw,
               expired |-> done /\ Expired(Engine, key, expire, now)]
     /\ touched' = IF done THEN KeepLive(Touch(touched, key), DOMAIN p.e.cache)
                   ELSE touched
     /\ stored' = IF done THEN InForce(s2, expire, now) ELSE stored

(* A request for `key` reaches ZoicCache.put with ctx.state.zoic = value.  *)
Put(key, value) ==
  /\ status = "constructed"
  /\ ev.op = "idle"
  /\ key \in KeysOf(capacity)
  /\ WithinCount(policy, Engine, key, expire, now)
  /\ PutReturned(key, value,
                 cachePutOutcome(policy, Engine, key, value, expire, now, capacity))
  /\ UNCHANGED <<configVars, now, pending, added>>

(* `new ZoicCache()` of the test server's router (LRU, one day) and an LRU  *)
(* with a TTL of one second, both of capacity 2.                           *)
PutConfigs ==
  {[options |-> Options("undefined", ExpUndef, "undefined"), capacity |-> 2],
   [options |-> Options("LRU", ExpStr(<<"1", "s">>), "true"), capacity |-> 2]}

InitPut ==
  /\ \E c \in PutConfigs : opts = c.options /\ capacity = c.capacity
  /\ LET c == constructor(opts)
     IN /\ status = c.status
        /\ error = c.error
        /\ expire = c.expire
        /\ policy = c.policy
        /\ respondOnHit = c.respondOnHit
  /\ InitRest

NextPut ==
  \/ \E key \in {AllKeys[i] : i \in DOMAIN AllKeys} : Use(key)
  \/ \E key \in {AllKeys[i] : i \in DOMAIN AllKeys}, v \in ZoicValues : Put(key, v)
  \/ \E key \in {AllKeys[i] : i \in DOMAIN AllKeys}, r \in Responses : ToDomResponse(key, r)
  \/ Tick
  \/ Return

SpecPut == InitPut /\ [][NextPut]_vars


-----------------------------------------------------------------------------
(* Construction on its own: `new ZoicCache(options)` for the options of    *)
(* ParseOptions.                                                           *)

(* The components TTL strings are made of, joined by commas.               *)
TtlParts ==
  {<<"1", "h">>, <<"3", "0", "m">>, <<"1", "5", "s">>, <<"2", "5", "h">>,
   <<"2", "4", "h">>, <<"0", "s">>, <<" ", "5", "m">>, <<"h">>, <<>>,
   <<"1", "q">>, <<"1", "q", "2", "s">>, <<"-", "1", "h">>}

RECURSIVE Join(_)
Join(parts) ==
  IF Len(parts) = 1 THEN parts[1] ELSE parts[1] \o <<",">> \o Join(Tail(parts))

TtlStrings ==
  {Join(ps) : ps \in UNION {[1..n -> TtlParts] : n \in 1..MaxParts}}

TtlNumbers == {0, 1, 5415, MaxExpire, MaxExpire + 1, -1}

ParseOptions ==
  {Options(c, e, r) :
     c \in {"undefined", "LRU", "LFU"},
     e \in {ExpUndef} \cup {ExpNum(n) : n \in TtlNumbers}
             \cup {ExpStr(s) : s \in TtlStrings},
     r \in {"undefined", "true", "false"}}

InitNew ==
  /\ opts \in ParseOptions
  /\ status = "new"
  /\ error = "none"
  /\ expire = NaN
  /\ policy = "none"
  /\ respondOnHit = FALSE
  /\ capacity = 0
  /\ InitRest

(* `new ZoicCache(opts)` *)
Construct ==
  /\ status = "new"
  /\ LET c == constructor(opts)
     IN /\ status' = c.status
        /\ error' = c.error
        /\ expire' = c.expire
        /\ policy' = c.policy
        /\ respondOnHit' = c.respondOnHit
        /\ capacity' \in IF c.status = "constructed" THEN Capacities ELSE {0}
  /\ UNCHANGED <<opts, engineVars, now, pending, ev, touched, stored, added>>

NextParse == Construct

SpecParse == InitNew /\ [][NextParse]_vars

-----------------------------------------------------------------------------
(* The DoublyLinkedList on its own: `new DoublyLinkedList()` and calls of  *)
(* addHead, deleteHead and deleteTail in any order.  The node a delete     *)
(* returns exists, as the caller holds it, until the caller drops it.      *)

InitList ==
  /\ opts = Options("undefined", ExpUndef, "undefined")
  /\ status = "new"
  /\ error = "none"
  /\ expire = NaN
  /\ policy = "none"
  /\ respondOnHit = FALSE
  /\ capacity = 0
  /\ InitRest

listUnchanged == <<configVars, freq, minCount, cache, now, pending, touched, stored>>

(* list.addHead(value, key) *)
AddHead(value, key) ==
  /\ ev.op = "idle"
  /\ Len(added) < MaxList
  /\ LET r == addHead(heap, list, value, key)
     IN /\ heap' = r.heap
        /\ list' = r.list
        /\ ev' = [NoEvent EXCEPT !.op = "addHead", !.key = key, !.value = value,
                                 !.ret = r.ret]
        /\ added' = <<r.ret>> \o added
  /\ UNCHANGED listUnchanged

(* list.deleteHead() *)
DeleteHead ==
  /\ ev.op = "idle"
  /\ LET r == deleteHead(heap, list)
     IN /\ heap' = r.heap
        /\ list' = r.list
        /\ ev' = [NoEvent EXCEPT !.op = "deleteHead", !.ret = r.ret]
        /\ added' = Without(added, {r.ret})
  /\ UNCHANGED listUnchanged

(* list.deleteTail() *)
DeleteTail ==
  /\ ev.op = "idle"
  /\ LET r == deleteTail(heap, list)
     IN /\ heap' = r.heap
        /\ list' = r.list
        /\ ev' = [NoEvent EXCEPT !.op = "deleteTail", !.ret = r.ret]
        /\ added' = Without(added, {r.ret})
  /\ UNCHANGED listUnchanged

(* The caller is done with what the method returned; a node that was taken *)
(* out of the list is dropped.                                             *)
Drop ==
  /\ ev.op # "idle"
  /\ heap' = IF ev.op \in {"deleteHead", "deleteTail"} /\ ev.ret # Null
             THEN Free(heap, ev.ret) ELSE heap
  /\ ev' = NoEvent
  /\ UNCHANGED <<listUnchanged, list, added>>

NextList ==
  \/ \E r \in Responses, i \in DOMAIN AllKeys : AddHead(r, AllKeys[i])
  \/ DeleteHead
  \/ DeleteTail
  \/ Drop

SpecList == InitList /\ [][NextList]_vars


-----------------------------------------------------------------------------
(* Properties of the cache behind the middleware (specification Spec).     *)

(* the nodes of a list from tail to head, following `prev` *)
RECURSIVE Backward(_, _, _)
Backward(h, a, fuel) ==
  IF a = Null \/ a \notin DOMAIN h \/ fuel = 0 THEN <<>>
  ELSE <<a>> \o Backward(h, h[a].prev, fuel - 1)
Reverse(seq) == [i \in DOMAIN seq |-> seq[Len(seq) + 1 - i]]
Range(seq) == {seq[i] : i \in DOMAIN seq}

(* the pointers of list l in heap h are those of a doubly linked list of   *)
(* n nodes                                                                 *)
WellLinked(h, l, n) ==
  LET f == ListNodes(h, l)
  IN /\ (l.head = Null) <=> (n = 0)
     /\ (l.tail = Null) <=> (n = 0)
     /\ Len(f) = n
     /\ Cardinality(Range(f)) = n
     /\ n > 0 =>
          /\ l.head \in DOMAIN h /\ l.tail \in DOMAIN h
          /\ h[l.head].prev = Null
          /\ h[l.tail].next = Null
          /\ f[1] = l.head /\ f[n] = l.tail
     /\ \A x \in Range(f) :
          /\ x # l.tail => h[x].next \in DOMAIN h /\ h[h[x].next].prev = x
          /\ x # l.head => h[x].prev \in DOMAIN h /\ h[h[x].prev].next = x
     /\ Backward(h, l.tail, Cardinality(NodeIds)) = Reverse(f)

LiveKeys == DOMAIN cache
AllLists == {list} \cup {freq[c] : c \in Counts}
ListedKeys == UNION {{ListKeys(heap, l)[i] : i \in DOMAIN ListKeys(heap, l)} : l \in AllLists}
ListedCount ==
  LET ls == AllLists
      n[T \in SUBSET ls] ==
        IF T = {} THEN 0
        ELSE LET l == CHOOSE x \in T : TRUE IN Len(ListNodes(heap, l)) + n[T \ {l}]
  IN n[ls]

(* this step is a cache.put of a key that is not in a full cache *)
PutNewWhenFull ==
  /\ ev'.op = "toDomResponse"
  /\ ev'.key \notin LiveKeys
  /\ Cardinality(LiveKeys) = capacity

(* C1: a get of a key returns exactly the value of the last put of that    *)
(* key, as long as that put is in force: not overwritten, not evicted by   *)
(* an overflow, not cleared and not expired.                               *)
C1_GetReturnsLastPut ==
  [][(ev'.op = "use" /\ ev'.key \in DOMAIN stored)
       => ev'.value = stored[ev'.key].v]_vars

(* C1 happens: a get returns a value that was put at an earlier second.    *)
C1_Witness ==
  /\ ev.op = "use"
  /\ ev.key \in DOMAIN stored
  /\ ev.value \in Responses
  /\ ev.value = stored[ev.key].v
  /\ stored[ev.key].t < now

(* C2: the number of live entries (in the hashmap, and in the lists) never *)
(* exceeds the capacity, and a put of a new key into a full cache evicts   *)
(* exactly one entry and then holds the new key.                           *)
C2_CapacityRespected ==
  /\ Cardinality(LiveKeys) <= capacity
  /\ ListedCount <= capacity
  /\ [][/\ Cardinality(LiveKeys') <= capacity
        /\ ListedCount' <= capacity
        /\ PutNewWhenFull =>
             /\ Cardinality(LiveKeys \ LiveKeys') = 1
             /\ LiveKeys' \ LiveKeys = {ev'.key}
             /\ ListedCount' = capacity]_vars

(* C2 happens: a put into a full cache has evicted one entry.              *)
C2_Witness ==
  /\ ev.op = "toDomResponse"
  /\ Cardinality(ev.removed) = 1
  /\ ev.key \notin ev.removed
  /\ Cardinality(LiveKeys) = capacity

(* C3: in the LRU, the key a put into a full cache evicts is the key whose *)
(* last touch (a put or a hit) is the oldest of all live keys.             *)
C3_LruEvictsLeastRecent ==
  [][(policy = "LRU" /\ PutNewWhenFull)
       => LiveKeys \ LiveKeys' = {touched[Len(touched)]}]_vars

(* C3 happens: capacity 3, put a, put b, put c, get a, put d: b is evicted *)
(* and a, c, d stay.                                                       *)
C3_Witness ==
  /\ policy = "LRU"
  /\ capacity = 3
  /\ ev.op = "toDomResponse"
  /\ ev.key = "d"
  /\ ev.removed = {"b"}
  /\ touched = <<"d", "a", "c">>
  /\ ListKeys(heap, list) = <<"d", "a", "c">>
  /\ LiveKeys = {"a", "c", "d"}

(* C4: in the LFU, the entry a put into a full cache evicts has the lowest *)
(* accessCount of all live entries and, among those with that count, the   *)
(* oldest last touch.                                                      *)
LeastCount == CHOOSE c \in {cache[k].count : k \in LiveKeys} :
                \A k \in LiveKeys : c <= cache[k].count
LastTouchedIn(S) ==
  touched[CHOOSE i \in DOMAIN touched :
            /\ touched[i] \in S
            /\ \A j \in DOMAIN touched : touched[j] \in S => j <= i]
C4_LfuEvictsLeastFrequent ==
  [][(policy = "LFU" /\ PutNewWhenFull)
       => LiveKeys \ LiveKeys' =
            {LastTouchedIn({k \in LiveKeys : cache[k].count = LeastCount})}]_vars

(* C4 happens: capacity 2, put a, put b, get a, get a, put c: b is evicted *)
(* (a has count 3).                                                        *)
C4_Witness ==
  /\ policy = "LFU"
  /\ capacity = 2
  /\ ev.op = "toDomResponse"
  /\ ev.key = "c"
  /\ ev.removed = {"b"}
  /\ LiveKeys = {"a", "c"}
  /\ cache["a"].count = 3
  /\ cache["c"].count = 1

(* C5: a get of an entry with now - insertedAt >= ttl is a miss and takes  *)
(* the entry out of the hashmap and out of its list, one live entry less;  *)
(* a get of an entry with now - insertedAt < ttl is a hit.                 *)
C5_ExpiredOnGet ==
  [][(ev'.op = "use" /\ ev'.key \in LiveKeys) =>
       IF JsGe(Num(now - cache[ev'.key].insertedAt), expire)
       THEN /\ ev'.value = Undefined
            /\ LiveKeys' = LiveKeys \ {ev'.key}
            /\ ev'.key \notin ListedKeys'
            /\ ListedCount' = ListedCount - 1
       ELSE /\ ev'.value # Undefined
            /\ LiveKeys' = LiveKeys]_vars

(* C5 happens: a get has found its entry expired and removed it.           *)
C5_Witness ==
  /\ ev.op = "use"
  /\ ev.removed = {ev.key}
  /\ ev.value = Undefined
  /\ now > 0

(* C6: after clearCache the engine is in the state of a new engine, and a  *)
(* get of any key that was present is a miss.                              *)
C6_ClearIsFresh ==
  [][ev'.op = "clearCache" =>
       /\ heap' = NewEngine.heap
       /\ list' = NewEngine.list
       /\ freq' = NewEngine.freq
       /\ minCount' = NewEngine.minCount
       /\ cache' = NewEngine.cache
       /\ \A k \in LiveKeys :
            ~cacheGet(policy, [heap |-> heap', list |-> list', freq |-> freq',
                               minCount |-> minCount', cache |-> cache'],
                      k, expire, now).hit]_vars

(* C6 happens: a cache that held entries was cleared.                      *)
C6_Witness ==
  /\ ev.op = "clearCache"
  /\ ev.removed # {}
  /\ LiveKeys = {}

C11_RespondOnHitFalse ==
  [][(ev'.op = "use" /\ ev'.value # Undefined) =>
       /\ opts.respondOnHit = "false" =>
            /\ ev'.next
            /\ ev'.zoicResponse = ev'.value
            /\ ev'.response = Undefined
       /\ opts.respondOnHit = "true" =>
            /\ ~ev'.next
            /\ ev'.response = ev'.value
            /\ ev'.zoicResponse = Undefined]_vars

(* C14: in the LFU, after every get, put and clear, every live entry is in *)
(* exactly one bucket, the one of its accessCount, and the buckets hold    *)
(* nothing else; the tracked minimum count is the least accessCount of the *)
(* live entries and its bucket is not empty, or it is undefined (0) when   *)
(* the cache is empty.                                                     *)
BucketsOf(k) == {c \in Counts : \E i \in DOMAIN ListKeys(heap, freq[c]) :
                                  ListKeys(heap, freq[c])[i] = k}
C14_LfuBucketsConsistent ==
  policy = "LFU" =>
    /\ \A k \in LiveKeys : BucketsOf(k) = {cache[k].count}
    /\ \A c \in Counts :
         Len(ListKeys(heap, freq[c])) = Cardinality({k \in LiveKeys : cache[k].count = c})
    /\ ListedKeys = LiveKeys
    /\ IF LiveKeys = {} THEN minCount = NewEngine.minCount
       ELSE /\ minCount \in Counts
            /\ freq[minCount].head # Null
            /\ minCount = LeastCount

(* C14 happens: a get has evicted an expired entry, the only one of the    *)
(* minimum bucket, and the minimum has moved to the count of the entry     *)
(* that is left.                                                           *)
C14_Witness ==
  /\ policy = "LFU"
  /\ ev.op = "use"
  /\ ev.expired
  /\ ev.removed = {ev.key}
  /\ LiveKeys # {}
  /\ minCount = 2

(* C15: with requests in flight between their miss and their put, in any  *)
(* order and also for the same key, the lists are well linked and hold     *)
(* exactly the live entries, every live key has exactly one node, and the  *)
(* entry count is at most the capacity; a put of a key that another        *)
(* request has put in the meantime replaces the value of that one entry.   *)
EngineWellFormed ==
  /\ WellLinked(heap, list, IF policy = "LRU" THEN Cardinality(LiveKeys) ELSE 0)
  /\ \A c \in Counts :
       WellLinked(heap, freq[c],
                  IF policy = "LFU"
                  THEN Cardinality({k \in LiveKeys : cache[k].count = c}) ELSE 0)
  /\ \A k \in LiveKeys :
       /\ {a \in DOMAIN heap : heap[a].key = k} = {cache[k].node}
       /\ k \in ListedKeys
  /\ {heap[a].key : a \in DOMAIN heap} = LiveKeys
  /\ Cardinality(LiveKeys) <= capacity
C15_InterleavingKeepsInvariants ==
  /\ []EngineWellFormed
  /\ [][(ev'.op = "toDomResponse" /\ ev'.key \in LiveKeys) =>
          /\ LiveKeys' = LiveKeys
          /\ heap'[cache'[ev'.key].node].value = ev'.value]_vars

(* C15 happens: two requests for a key have missed, and both have put: the *)
(* second put found the entry of the first (LFU, no expiry: the count of   *)
(* an entry is 2 after a put only if the put found it with count 1).       *)
C15_Witness ==
  /\ policy = "LFU"
  /\ expire = Num(DefaultExpire)
  /\ ev.op = "toDomResponse"
  /\ ~ev.expired
  /\ cache[ev.key].count = 2
  /\ pending[ev.key] = 0

(* C16: a put on a key whose entry is expired at the time of the put is a  *)
(* fresh insert: the entry holds the new value and the time of the put,    *)
(* its accessCount is 1 in the LFU, it is at the head of its list, the key *)
(* has one node only, and the entry count is at most the capacity.         *)
C16_PutOnExpiredIsFresh ==
  [][(/\ ev'.op = "toDomResponse"
      /\ ev'.key \in LiveKeys
      /\ JsGe(Num(now - cache[ev'.key].insertedAt), expire)) =>
       LET k == ev'.key
       IN /\ k \in LiveKeys'
          /\ cache'[k].insertedAt = now
          /\ heap'[cache'[k].node].value = ev'.value
          /\ policy = "LFU" => cache'[k].count = 1 /\ freq'[1].head = cache'[k].node
          /\ policy = "LRU" => list'.head = cache'[k].node
          /\ {a \in DOMAIN heap' : heap'[a].key = k} = {cache'[k].node}
          /\ Cardinality(LiveKeys') <= capacity
          /\ Cardinality(LiveKeys') = Cardinality(LiveKeys)]_vars

(* C16 happens: a put has replaced an expired entry while another entry    *)
(* was live.                                                               *)
C16_Witness ==
  /\ ev.op = "toDomResponse"
  /\ ev.expired
  /\ ev.key \in LiveKeys
  /\ cache[ev.key].insertedAt = now
  /\ Cardinality(LiveKeys) > 1


-----------------------------------------------------------------------------
(* Properties of the `put` middleware (specification SpecPut).             *)

(* C12: every run of the `put` middleware ends with next() called or with  *)
(* the failure body set, never both and never neither: next() exactly when *)
(* the cache put returned 0, the failure body exactly when it returned -1  *)
(* or threw.                                                               *)
C12_PutEndsInOneOutcome ==
  [][ev'.op = "put" =>
       /\ ev'.next <=> (~ev'.threw /\ ev'.ret = 0)
       /\ (ev'.response = FailureBody) <=> (ev'.threw \/ ev'.ret = -1)
       /\ ev'.next <=> ev'.response # FailureBody
       /\ ev'.response \in {FailureBody, Undefined}]_vars

(* C12 happens: the cache put returned -1 and the failure body was set.    *)
C12_Witness ==
  /\ ev.op = "put"
  /\ ~ev.threw
  /\ ev.ret = -1
  /\ ~ev.next
  /\ ev.response = FailureBody

(* C20: a lookup of a key whose live, unexpired entry holds a falsy value  *)
(* (undefined, stored by `put` when ctx.state.zoic is unset) is handled as *)
(* a miss: next() is called, the response is made cacheable, nothing is    *)
(* written to the response, and the entry stays as it is.                  *)
C20_FalsyValueIsAMiss ==
  [][(/\ ev'.op = "use"
      /\ ev'.key \in LiveKeys
      /\ ~JsGe(Num(now - cache[ev'.key].insertedAt), expire)
      /\ heap[cache[ev'.key].node].value = Undefined) =>
       /\ ev'.next
       /\ pending'[ev'.key] = pending[ev'.key] + 1
       /\ ev'.response = Undefined
       /\ ev'.zoicResponse = Undefined
       /\ ev'.key \in LiveKeys'
       /\ heap'[cache'[ev'.key].node].value = Undefined]_vars

(* C20 happens: undefined was put under a key, and a lookup of the key,    *)
(* present in the cache, went the way of a miss.                           *)
C20_Witness ==
  /\ ev.op = "use"
  /\ ev.key \in LiveKeys
  /\ ev.key \in DOMAIN stored
  /\ stored[ev.key].v = Undefined
  /\ heap[cache[ev.key].node].value = Undefined
  /\ ev.next
  /\ pending[ev.key] > 0

(* A TTL string read character by character: ok when every component      *)
(* between the commas is a number followed by h, m or s, and then total is *)
(* the seconds it denotes.  With `lenient`, white space and a sign may     *)
(* precede the digits.  phase: "start" before a component, "sign" after a  *)
(* sign, "num" in the digits, "unit" after the unit.                       *)
UnitSeconds(c) == IF c = "h" THEN 3600 ELSE IF c = "m" THEN 60 ELSE 1

RECURSIVE Scan(_, _, _, _, _, _, _)
Scan(s, i, lenient, phase, neg, cur, total) ==
  IF i > Len(s) THEN [ok |-> phase = "unit", total |-> total]
  ELSE LET c == s[i]
       IN CASE phase = "start" /\ IsDigit(c) ->
                 Scan(s, i + 1, lenient, "num", FALSE, DigitVal(c), total)
            [] phase = "start" /\ lenient /\ IsSpace(c) ->
                 Scan(s, i + 1, lenient, "start", FALSE, 0, total)
            [] phase = "start" /\ lenient /\ c = "-" ->
                 Scan(s, i + 1, lenient, "sign", TRUE, 0, total)
            [] phase = "sign" /\ IsDigit(c) ->
                 Scan(s, i + 1, lenient, "num", neg, DigitVal(c), total)
            [] phase = "num" /\ IsDigit(c) ->
                 Scan(s, i + 1, lenient, "num", neg, cur * 10 + DigitVal(c), total)
            [] phase = "num" /\ c \in {"h", "m", "s"} ->
                 Scan(s, i + 1, lenient, "unit", FALSE, 0,
                      total + (IF neg THEN -1 ELSE 1) * cur * UnitSeconds(c))
            [] phase = "unit" /\ c = "," ->
                 Scan(s, i + 1, lenient, "start", FALSE, 0, total)
            [] OTHER -> [ok |-> FALSE, total |-> 0]

Composite(s) == Scan(s, 1, FALSE, "start", FALSE, 0, 0)
Lenient(s) == Scan(s, 1, TRUE, "start", FALSE, 0, 0)

Str_1h_30m_15s == <<"1", "h", ",", "3", "0", "m", ",", "1", "5", "s">>
Str_25h == <<"2", "5", "h">>

(* C7: a TTL string with a component that is not a number followed by h,   *)
(* m or s, and a TTL outside [0, 86400], are rejected by the constructor;  *)
(* no object is constructed with a TTL that is not a number in that range. *)
C7_MalformedRejected ==
  status # "new" =>
    /\ (opts.expire.t = "string" /\ opts.expire.s # <<>>
          /\ ~Lenient(opts.expire.s).ok) => status = "threw"
    /\ (opts.expire.t = "number"
          /\ (opts.expire.n < 0 \/ opts.expire.n > MaxExpire)) => status = "threw"
    /\ status = "constructed" =>
         ~expire.nan /\ expire.n >= 0 /\ expire.n <= MaxExpire

(* C8: a composite string "<N>h,<N>m,<N>s" is parsed to the sum of its     *)
(* components in seconds, and rejected as out of range when the sum        *)
(* exceeds 86400; "1h,30m,15s" gives 5415 and "25h" is rejected.           *)
C8_CompositeIsSummed ==
  (status # "new" /\ opts.expire.t = "string" /\ Composite(opts.expire.s).ok) =>
    /\ IF Composite(opts.expire.s).total <= MaxExpire
       THEN status = "constructed" /\ expire = Num(Composite(opts.expire.s).total)
       ELSE status = "threw" /\ error = "range"
    /\ opts.expire.s = Str_1h_30m_15s => status = "constructed" /\ expire = Num(5415)
    /\ opts.expire.s = Str_25h => status = "threw" /\ error = "range"

(* C8 happens: "1h,30m,15s" was parsed at construction.                    *)
C8_Witness ==
  /\ status = "constructed"
  /\ opts.expire = ExpStr(Str_1h_30m_15s)
  /\ expire = Num(5415)

(* C9: a numeric ttl option n with 0 <= n <= 86400 is accepted and is the  *)
(* cache's TTL (also n = 0); an omitted option gives 86400, and a numeric  *)
(* option gives 86400 only when it is 86400.                               *)
C9_NumericTtlKept ==
  status # "new" =>
    /\ (opts.expire.t = "number" /\ opts.expire.n >= 0 /\ opts.expire.n <= MaxExpire)
         => status = "constructed" /\ expire = Num(opts.expire.n)
    /\ opts.expire.t = "undefined"
         => status = "constructed" /\ expire = Num(DefaultExpire)
    /\ (opts.expire.t = "number" /\ status = "constructed" /\ expire = Num(DefaultExpire))
         => opts.expire.n = DefaultExpire


-----------------------------------------------------------------------------
(* Properties of the DoublyLinkedList (specification SpecList).            *)

(* C13: after any sequence of addHead, deleteHead and deleteTail, head and *)
(* tail are null exactly when the list is empty, head.prev and tail.next   *)
(* are null, next and prev of neighbours point at each other, and the      *)
(* traversal from the tail is the reverse of the traversal from the head.  *)
C13_ListWellLinked == WellLinked(heap, list, Len(added))

(* C13 happens: a list of two nodes after a deleteTail.                    *)
C13_Witness ==
  /\ ev.op = "deleteTail"
  /\ ev.ret # Null
  /\ Len(added) = 2
  /\ list.head # list.tail

(* C17: the list holds its nodes most recently added first; head is the    *)
(* most recently added node still in the list and tail the earliest;       *)
(* addHead returns the new head, deleteTail the earliest added node and    *)
(* deleteHead the most recently added one.                                 *)
HeadIsLastAdded ==
  /\ ListNodes(heap, list) = added
  /\ added # <<>> => list.head = added[1] /\ list.tail = added[Len(added)]
C17_ReverseInsertionOrder ==
  /\ []HeadIsLastAdded
  /\ [][/\ ev'.op = "addHead" =>
             /\ ev'.ret = list'.head
             /\ ev'.ret \notin Range(added)
             /\ ListNodes(heap', list') = <<ev'.ret>> \o added
             /\ heap'[ev'.ret].key = ev'.key /\ heap'[ev'.ret].value = ev'.value
        /\ (ev'.op = "deleteTail" /\ added # <<>>) =>
             /\ ev'.ret = added[Len(added)]
             /\ ListNodes(heap', list') = SubSeq(added, 1, Len(added) - 1)
        /\ (ev'.op = "deleteHead" /\ added # <<>>) =>
             /\ ev'.ret = added[1]
             /\ ListNodes(heap', list') = Tail(added)]_vars

(* C17 happens: of three nodes added, deleteTail has returned the first.   *)
C17_Witness ==
  /\ ev.op = "deleteTail"
  /\ Len(added) = 2
  /\ ev.ret \in DOMAIN heap
  /\ heap[ev.ret].prev = added[2]
  /\ ListNodes(heap, list) = added

(* C18: deleteHead and deleteTail of an empty list return null and leave   *)
(* head and tail null; of a list of one node they return the node and      *)
(* leave head and tail null.                                               *)
C18_DeleteOnEmptyAndSingle ==
  [][(ev'.op \in {"deleteHead", "deleteTail"}) =>
       /\ added = <<>> =>
            ev'.ret = Null /\ list' = EmptyList /\ heap' = heap /\ list = EmptyList
       /\ Len(added) = 1 =>
            ev'.ret = added[1] /\ list' = EmptyList]_vars

(* C18 happens: deleteHead of an empty list has returned null.             *)
C18_Witness ==
  /\ ev.op = "deleteHead"
  /\ ev.ret = Null
  /\ added = <<>>
  /\ list = EmptyList

(* C19: after deleteHead or deleteTail of a list of more than one node, no *)
(* node in the list has a prev or next that is the removed node, and the   *)
(* prev and next of the removed node are not nodes in the list.            *)
C19_NoDanglingReference ==
  [][(ev'.op \in {"deleteHead", "deleteTail"} /\ Len(added) > 1) =>
       LET rest == Range(ListNodes(heap', list'))
       IN /\ ev'.ret \notin rest
          /\ \A x \in rest : heap'[x].prev # ev'.ret /\ heap'[x].next # ev'.ret
          /\ heap'[ev'.ret].prev \notin rest
          /\ heap'[ev'.ret].next \notin rest]_vars

====
